---- MODULE Spec2Model ----
(***************************************************************************)
(* The Proxmox salt-cloud driver (saltext/proxmox_v9x/clouds/proxmox_v9x.py)*)
(* as a state machine: one driver call runs against a remote cluster whose  *)
(* VM statuses change on their own.  Every driver function is one action;   *)
(* its position is the pc of its frame on the call stack.                   *)
(***************************************************************************)
EXTENDS Integers, Sequences, FiniteSets, TLC

VARIABLES
    cluster,    \* the inventory GET cluster/resources?type=vm returns, in order
    pending,    \* clones the cluster accepted that are not in the inventory yet
    agentUp,    \* whether the guest agent of the new VM answers
    now,        \* time.time(), in seconds
    stack,      \* the call stack of the driver call in flight (last = innermost)
    outcome,    \* exc: "none" while running, "ok", or the exception that ended the
                \* call; by: the function that raised it
    result,     \* what the outermost call returned
    events,     \* notifications, the POST and DELETE requests that reached the
                \* cluster, SSH probes and bootstrap, in order
    vm_,        \* create's vm_ dictionary
    ssh_host,   \* __opts__["ssh_host"]
    faults,     \* transport failures so far
    invoked,    \* the outermost call and its arguments
    seen,       \* statuses the VM of the call has had since the call began or, once
                \* a status wait polls, since that wait began polling
    observed,   \* statuses the driver has read off a response (response["status"])
                \* since its last status-action request
    pollStart   \* time.time() when the latest status wait began polling (-1: none did)

vars == <<cluster, pending, agentUp, now, stack, outcome, result, events,
          vm_, ssh_host, faults, invoked, seen, observed, pollStart>>

(* ------------------------------ bounds -------------------------------- *)
MaxVMs == 3
QueryTime == 1
MaxFaults == 1
MaxTimeout == 2
MaxInterval == 1
MaxCloneLag == 2

(* ------------------------- program constants -------------------------- *)
NameLookupMax == 60
DefaultLookupInterval == 1
DefaultLookupMax == 2
WaitLookupInterval == 5
WaitLookupMax == 12
DestroyTimeout == 20
DestroyInterval == 2
StartTimeout == 300
StartInterval == 1
ShutdownTimeout == 300
ShutdownInterval == 1
CreateRunningTimeout == 60
CreateRunningInterval == 2
CreateIpTimeout == 10
CreateIpInterval == 2
IpRunningTimeout == 300
IpRunningInterval == 5
SshProbes == 5
FirstVmid == 100

(* ------------------------------ values -------------------------------- *)
Statuses == {"running", "stopped"}
Calls == {"None", "action", "function"}
ZeroMac == "00:00:00:00:00:00"

NoVM == [name |-> "", vmid |-> 0, status |-> ""]
NoRes == [kind |-> "none", nics |-> <<>>]
NoClone == [vmid |-> 0, newid |-> 0, name |-> ""]
NoCreate == [node |-> "", vmid |-> 0, newid |-> 0, full |-> FALSE, name |-> ""]
NoVmOpts == [name |-> "", image |-> "", clone |-> NoClone, create |-> NoCreate]
NoResult == [success |-> FALSE, state |-> "", action |-> "", vm |-> NoVM,
             res |-> NoRes, boot |-> ""]
Idle == [op |-> "idle", call |-> "None", name |-> "", status |-> "",
         timeout |-> 0, interval |-> 0]

\* The VMs a cluster inventory is drawn from.
Catalogue ==
    << [name |-> "tmpl-a", vmid |-> 100, status |-> "stopped"],
       [name |-> "vm1",    vmid |-> 104, status |-> "running"],
       [name |-> "db-1",   vmid |-> 105, status |-> "running"] >>

SeqsUpTo(S, n) == UNION { [1..k -> S] : k \in 0..n }

InjSeqs(S, n) ==
    UNION { { s \in [1..k -> S] : \A i, j \in 1..k : i # j => s[i] # s[j] } : k \in 0..n }

Inventories ==
    { [i \in 1..Len(p) |-> Catalogue[p[i]]] : p \in InjSeqs(1..Len(Catalogue), MaxVMs) }

Min(S) == CHOOSE x \in S : \A y \in S : x <= y
Max(S) == CHOOSE x \in S : \A y \in S : x >= y

(* ------------------------- the remote cluster -------------------------- *)
\* How long one request takes, in seconds of the logical clock (each request
\* carries timeout=10, so it does return).
QueryDur == {QueryTime}

\* _query: the request succeeds; requests raises RequestException, which
\* _query turns into None ("conn"); or the server answers an error status and
\* raise_for_status() raises HTTPError out of _query ("http").
QueryResults == IF faults < MaxFaults THEN {"ok", "conn", "http"} ELSE {"ok"}
Fail(q) == IF q = "ok" THEN 0 ELSE 1

Ev(kind, what, vmid, arg) == [kind |-> kind, what |-> what, vmid |-> vmid, arg |-> arg]

Matches(vms, name) == { i \in 1..Len(vms) : vms[i].name = name }
ById(vms, vmid) == { i \in 1..Len(vms) : vms[i].vmid = vmid }
StatusOf(vmid) == cluster[Min(ById(cluster, vmid))].status

\* An external actor, or an operation converging, changes the status of the
\* VM the call in flight is about.
ClusterStatusChange ==
    /\ stack # <<>>
    /\ \E i \in 1..Len(cluster), s \in Statuses :
        /\ cluster[i].name = invoked.name
        /\ cluster[i].status # s
        /\ cluster' = [cluster EXCEPT ![i].status = s]
        /\ seen' = seen \cup {s}
    /\ UNCHANGED <<pending, agentUp, now, stack, outcome, result, events,
                   vm_, ssh_host, faults, invoked, observed, pollStart>>

(* ---------------------------- the call stack --------------------------- *)
Frame(fn, pc, name) ==
    [fn |-> fn, pc |-> pc, name |-> name, call |-> "None", status |-> "",
     timeout |-> 0, interval |-> 0, max |-> 0, counter |-> 0, start_time |-> 0,
     loop |-> 0, vm |-> NoVM, res |-> NoRes, x |-> 0]

Top == stack[Len(stack)]
Running(fn) == stack # <<>> /\ Top.fn = fn

SetTop(f) ==
    /\ stack' = [stack EXCEPT ![Len(stack)] = f]
    /\ UNCHANGED <<outcome, result>>

\* Call callee; the caller resumes at pc cont when it returns.
CallFn(cont, callee) ==
    /\ stack' = Append([stack EXCEPT ![Len(stack)].pc = cont], callee)
    /\ UNCHANGED <<outcome, result>>

\* No function of the driver catches what its callees raise: an exception
\* unwinds the whole stack and ends the outermost call.
Raise(e) ==
    /\ stack' = <<>>
    /\ outcome' = [exc |-> e, by |-> Top.fn]
    /\ UNCHANGED result

\* Return val to the caller: a lookup's VM lands in the caller's vm, the
\* interface report of _wait_for_ip and the address lists of _parse_ips in its
\* res; other values are dropped by every caller in the driver.
Return(val) ==
    IF Len(stack) = 1
    THEN /\ stack' = <<>>
         /\ outcome' = [exc |-> "ok", by |-> ""]
         /\ result' = val
    ELSE /\ stack' = [i \in 1..(Len(stack) - 1) |->
                        IF i < Len(stack) - 1 THEN stack[i]
                        ELSE [stack[i] EXCEPT
                                !.vm = IF Top.fn \in {"_get_vm_by_name", "_get_vm_by_id",
                                                     "show_instance"}
                                       THEN val.vm ELSE @,
                                !.res = IF Top.fn \in {"_wait_for_ip", "_parse_ips"}
                                        THEN val.res ELSE @]]
         /\ UNCHANGED <<outcome, result>>

(* ---------------------------- _get_vm_by_name -------------------------- *)
\* def _get_vm_by_name(name, interval=1, max=2, message=None): counter = 0 and
\* max = 60 on entry, whatever the caller passed.
GetVmByName(name, interval, max) ==
    [Frame("_get_vm_by_name", "loop", name) EXCEPT
        !.interval = interval, !.max = NameLookupMax, !.counter = 0]

get_vm_by_name ==
    /\ Running("_get_vm_by_name")
    /\ IF Top.counter < Top.max
       THEN \E d \in QueryDur, q \in QueryResults :
            /\ faults' = faults + Fail(q)
            /\ IF q = "http" THEN now' = now + d /\ Raise("HTTPError")
               ELSE IF q = "conn" THEN now' = now + d /\ Raise("TypeError")
               ELSE IF Matches(cluster, Top.name) # {}
               THEN /\ now' = now + d
                    /\ Return([NoResult EXCEPT
                                 !.vm = cluster[Min(Matches(cluster, Top.name))]])
               ELSE /\ now' = now + d + Top.interval
                    /\ SetTop([Top EXCEPT !.counter = @ + 1])
       ELSE /\ Raise("SaltCloudNotFound")
            /\ UNCHANGED <<now, faults>>
    /\ UNCHANGED <<cluster, pending, agentUp, events, vm_, ssh_host,
                   invoked, seen, observed, pollStart>>

(* ----------------------------- _set_vm_status -------------------------- *)
\* _set_vm_status sending the stop action whatever status it was given.
SetVmStatusStop(name, status) ==
    [Frame("_set_vm_status", "lookup", name) EXCEPT !.status = "stop"]

SetVmStatus(name, status) ==
    [Frame("_set_vm_status", "lookup", name) EXCEPT !.status = status]

set_vm_status ==
    /\ Running("_set_vm_status")
    /\ IF Top.pc = "lookup"
       THEN /\ CallFn("post", GetVmByName(Top.name, DefaultLookupInterval, DefaultLookupMax))
            /\ UNCHANGED <<now, faults, events, observed>>
       ELSE \E d \in QueryDur, q \in QueryResults :
            /\ faults' = faults + Fail(q)
            /\ now' = now + d
            /\ IF q = "conn"
               THEN Return(NoResult) /\ UNCHANGED <<events, observed>>
               ELSE /\ events' = Append(events, Ev("POST", Top.status, Top.vm.vmid, 0))
                    /\ observed' = {}
                    /\ IF q = "http" THEN Raise("HTTPError") ELSE Return(NoResult)
    /\ UNCHANGED <<cluster, pending, agentUp, vm_, ssh_host, invoked, seen,
                   pollStart>>

(* --------------------------------- stop -------------------------------- *)
StopCall(name, call) == [Frame("stop", "entry", name) EXCEPT !.call = call]

\* stop without the test of lines 458-459.
stop_any_call ==
    /\ Running("stop")
    /\ IF Top.pc = "entry"
       THEN CallFn("ret", SetVmStatus(Top.name, "stop"))
       ELSE Return([NoResult EXCEPT !.success = TRUE, !.state = "stopped",
                                    !.action = "stop"])
    /\ UNCHANGED <<cluster, pending, agentUp, now, events, vm_, ssh_host,
                   faults, invoked, seen, observed, pollStart>>

stop ==
    /\ Running("stop")
    /\ IF Top.pc = "entry"
       THEN IF Top.call # "action"
            THEN Raise("SaltCloudSystemExit")
            ELSE CallFn("ret", SetVmStatus(Top.name, "stop"))
       ELSE Return([NoResult EXCEPT !.success = TRUE, !.state = "stopped",
                                    !.action = "stop"])
    /\ UNCHANGED <<cluster, pending, agentUp, now, events, vm_, ssh_host,
                   faults, invoked, seen, observed, pollStart>>

(* -------------------------- _wait_for_vm_status ------------------------ *)
WaitForVmStatus(name, status, timeout, interval) ==
    [Frame("_wait_for_vm_status", "lookup", name) EXCEPT
        !.status = status, !.timeout = timeout, !.interval = interval, !.loop = 1]

\* The loops of lines 709-741 that come before the one that compares.
SpinLoops == 8

\* while time.time() < start_time + timeout: response = _query(...), entered
\* at time t with the deadline at t + span and n requests to an iteration: the
\* time at which the loop is left.  Nothing reads response before the next
\* request overwrites it, so the loop is one step of the model.
SpinExit(t, span, n) ==
    IF span <= 0 THEN t
    ELSE t + ((span + n * QueryTime - 1) \div (n * QueryTime)) * (n * QueryTime)

\* line 707
WaitLookup ==
    /\ CallFn("spin", GetVmByName(Top.name, WaitLookupInterval, WaitLookupMax))
    /\ UNCHANGED <<now, faults, seen, observed, pollStart>>

\* lines 709-741: start_time = time.time(), then a loop that only fetches
WaitSpin ==
    /\ pollStart' = IF Top.loop = 1 THEN now ELSE pollStart
    /\ seen' = IF Top.loop = 1 THEN {StatusOf(Top.vm.vmid)} ELSE seen
    /\ IF Top.timeout <= 0
       THEN /\ SetTop([Top EXCEPT !.start_time = now,
                                  !.loop = @ + 1,
                                  !.pc = IF Top.loop = SpinLoops THEN "tail" ELSE "spin"])
            /\ UNCHANGED <<now, faults>>
       ELSE \E q \in QueryResults :
            /\ faults' = faults + Fail(q)
            /\ IF q = "http"
               THEN /\ now' = now + QueryTime
                    /\ Raise("HTTPError")
               ELSE /\ now' = SpinExit(now, Top.timeout, 1)
                    /\ SetTop([Top EXCEPT !.start_time = now,
                                          !.loop = @ + 1,
                                          !.pc = IF Top.loop = SpinLoops
                                                 THEN "tail" ELSE "spin"])
    /\ UNCHANGED observed

\* lines 744-747: the start_time of line 739 still, two requests to an iteration
WaitTail ==
    /\ IF now < Top.start_time + Top.timeout
       THEN \E q \in QueryResults :
            /\ faults' = faults + Fail(q)
            /\ IF q = "http"
               THEN /\ now' = now + QueryTime
                    /\ Raise("HTTPError")
               ELSE /\ now' = SpinExit(now, Top.start_time + Top.timeout - now, 2)
                    /\ SetTop([Top EXCEPT !.pc = "check"])
       ELSE /\ SetTop([Top EXCEPT !.pc = "check"])
            /\ UNCHANGED <<now, faults>>
    /\ UNCHANGED <<seen, observed, pollStart>>

\* lines 748-756: the same start_time again; the only loop that compares
WaitCheck ==
    /\ IF now < Top.start_time + Top.timeout
       THEN \E q \in QueryResults :
            /\ faults' = faults + Fail(q)
            /\ IF q = "http"
               THEN now' = now + QueryTime /\ Raise("HTTPError") /\ UNCHANGED observed
               ELSE IF q = "conn"
               THEN now' = now + QueryTime /\ Raise("TypeError") /\ UNCHANGED observed
               ELSE /\ observed' = observed \cup {StatusOf(Top.vm.vmid)}
                    /\ IF StatusOf(Top.vm.vmid) = Top.status
                       THEN /\ now' = now + QueryTime
                            /\ Return([NoResult EXCEPT !.success = TRUE])
                       ELSE /\ now' = now + QueryTime + Top.interval
                            /\ SetTop(Top)
       ELSE /\ Raise("SaltCloudExecutionTimeout")
            /\ UNCHANGED <<now, faults, observed>>
    /\ UNCHANGED <<seen, pollStart>>

\* _wait_for_vm_status answering True once the VM is found, with no status
\* fetched and none compared.
wait_for_vm_status_unpolled ==
    /\ Running("_wait_for_vm_status")
    /\ CASE Top.pc = "lookup" -> WaitLookup
         [] OTHER -> /\ Return([NoResult EXCEPT !.success = TRUE])
                     /\ UNCHANGED <<now, faults, seen, observed, pollStart>>
    /\ UNCHANGED <<cluster, pending, agentUp, events, vm_, ssh_host, invoked>>

wait_for_vm_status ==
    /\ Running("_wait_for_vm_status")
    /\ CASE Top.pc = "lookup" -> WaitLookup
         [] Top.pc = "spin" -> WaitSpin
         [] Top.pc = "tail" -> WaitTail
         [] Top.pc = "check" -> WaitCheck
    /\ UNCHANGED <<cluster, pending, agentUp, events, vm_, ssh_host, invoked>>

(* ---------------------------- start, shutdown -------------------------- *)
StartCall(name, call) == [Frame("start", "entry", name) EXCEPT !.call = call]

start ==
    /\ Running("start")
    /\ CASE Top.pc = "entry" ->
            IF Top.call # "action"
            THEN Raise("SaltCloudSystemExit")
            ELSE CallFn("wait", SetVmStatus(Top.name, "start"))
         [] Top.pc = "wait" ->
            CallFn("ret", WaitForVmStatus(Top.name, "running", StartTimeout, StartInterval))
         [] Top.pc = "ret" ->
            Return([NoResult EXCEPT !.success = TRUE, !.state = "running",
                                    !.action = "start"])
    /\ UNCHANGED <<cluster, pending, agentUp, now, events, vm_, ssh_host,
                   faults, invoked, seen, observed, pollStart>>

ShutdownCall(name, call) == [Frame("shutdown", "entry", name) EXCEPT !.call = call]

shutdown ==
    /\ Running("shutdown")
    /\ CASE Top.pc = "entry" ->
            IF Top.call # "action"
            THEN Raise("SaltCloudSystemExit")
            ELSE CallFn("wait", SetVmStatus(Top.name, "shutdown"))
         [] Top.pc = "wait" ->
            CallFn("ret", WaitForVmStatus(Top.name, "stopped", ShutdownTimeout,
                                          ShutdownInterval))
         [] Top.pc = "ret" ->
            Return([NoResult EXCEPT !.success = TRUE, !.state = "stopped",
                                    !.action = "shutdown"])
    /\ UNCHANGED <<cluster, pending, agentUp, now, events, vm_, ssh_host,
                   faults, invoked, seen, observed, pollStart>>

(* -------------------------------- destroy ------------------------------ *)
DestroyCall(name, call) == [Frame("destroy", "entry", name) EXCEPT !.call = call]

Without(vms, vmid) == SelectSeq(vms, LAMBDA v : v.vmid # vmid)

destroy ==
    /\ Running("destroy")
    /\ CASE Top.pc = "entry" ->
            \* lines 198-203
            /\ IF Top.call = "function"
               THEN Raise("SaltCloudSystemExit")
               ELSE CallFn("event", StopCall(Top.name, Top.call))
            /\ UNCHANGED <<cluster, now, events, faults>>
         [] Top.pc = "event" ->
            \* lines 205-214
            /\ events' = Append(events, Ev("notify", "destroying", 0, 0))
            /\ CallFn("wait", GetVmByName(Top.name, DefaultLookupInterval, DefaultLookupMax))
            /\ UNCHANGED <<cluster, now, faults>>
         [] Top.pc = "wait" ->
            \* line 216
            /\ CallFn("delete", WaitForVmStatus(Top.name, "stopped", DestroyTimeout,
                                                DestroyInterval))
            /\ UNCHANGED <<cluster, now, events, faults>>
         [] Top.pc = "delete" ->
            \* lines 218-227
            \E q \in QueryResults :
                /\ faults' = faults + Fail(q)
                /\ now' = now + QueryTime
                /\ IF q = "http"
                   THEN /\ events' = Append(events, Ev("DELETE", "", Top.vm.vmid, 0))
                        /\ Raise("HTTPError")
                        /\ UNCHANGED cluster
                   ELSE /\ cluster' = IF q = "ok" THEN Without(cluster, Top.vm.vmid)
                                      ELSE cluster
                        /\ events' = (IF q = "ok"
                                      THEN Append(events, Ev("DELETE", "", Top.vm.vmid, 0))
                                      ELSE events)
                                     \o << Ev("notify", "destroyed", 0, 0) >>
                        /\ Return(NoResult)
    /\ UNCHANGED <<pending, agentUp, vm_, ssh_host, invoked, seen, observed,
                   pollStart>>

(* ------------------------------ _get_vm_by_id -------------------------- *)
GetVmById(vmid) == [Frame("_get_vm_by_id", "fetch", "") EXCEPT !.vm = [NoVM EXCEPT !.vmid = vmid]]

get_vm_by_id ==
    /\ Running("_get_vm_by_id")
    /\ \E q \in QueryResults :
        /\ faults' = faults + Fail(q)
        /\ now' = now + QueryTime
        /\ IF q = "http" THEN Raise("HTTPError")
           ELSE IF q = "conn" THEN Raise("TypeError")
           ELSE IF ById(cluster, Top.vm.vmid) # {}
           THEN Return([NoResult EXCEPT !.vm = cluster[Min(ById(cluster, Top.vm.vmid))]])
           ELSE Raise("SaltCloudNotFound")
    /\ UNCHANGED <<cluster, pending, agentUp, events, vm_, ssh_host, invoked,
                   seen, observed, pollStart>>

(* --------------------------------- clone ------------------------------- *)
\* GET cluster/nextid: the lowest id from 100 up that no VM has.
NextId(vms) ==
    Min({ n \in FirstVmid..(FirstVmid + Len(vms)) : ById(vms, n) = {} })

\* POST .../clone as the cluster takes it: a clone whose newid is in use, or
\* that names no newid from 100 up (a required parameter, lines 101-102), is
\* refused with an error status; an accepted one shows in the inventory later.
PendingVMs == [i \in 1..Len(pending) |-> pending[i].vm]
CloneRefused(newid) == newid < FirstVmid \/ ById(cluster \o PendingVMs, newid) # {}
Cloned(newid, name) ==
    [vm |-> [name |-> name, vmid |-> newid, status |-> "stopped"], at |-> now + QueryTime]

CloneCall(kwargs) ==
    [Frame("clone", "entry", kwargs.name) EXCEPT !.vm = [NoVM EXCEPT !.vmid = kwargs.vmid],
                                                 !.x = kwargs.newid]

clone ==
    /\ Running("clone")
    /\ CASE Top.pc = "entry" ->
            \* lines 134-145
            /\ CallFn("post", GetVmById(Top.vm.vmid))
            /\ UNCHANGED <<pending, now, events, faults>>
         [] Top.pc = "post" ->
            \* lines 147-149: the request, then the raise that follows it whatever
            \* the answer was
            \E q \in QueryResults :
                /\ faults' = faults + Fail(q)
                /\ now' = now + QueryTime
                /\ events' = IF q = "conn" THEN events
                             ELSE Append(events, Ev("POST", "clone", Top.vm.vmid, Top.x))
                /\ pending' = IF q = "ok" /\ ~CloneRefused(Top.x)
                              THEN Append(pending, Cloned(Top.x, Top.name))
                              ELSE pending
                /\ IF q = "http" \/ (q = "ok" /\ CloneRefused(Top.x))
                   THEN Raise("HTTPError")
                   ELSE Raise("SaltCloudExecutionTimeout")
    /\ UNCHANGED <<cluster, agentUp, vm_, ssh_host, invoked, seen, observed,
                   pollStart>>

\* An accepted clone becomes visible in the inventory, within MaxCloneLag
\* seconds of the request or (a clone task that fails) never.
CloneMaterialize ==
    /\ pending # <<>>
    /\ now <= Head(pending).at + MaxCloneLag
    /\ cluster' = Append(cluster, Head(pending).vm)
    /\ pending' = Tail(pending)
    /\ UNCHANGED <<agentUp, now, stack, outcome, result, events, vm_, ssh_host,
                   faults, invoked, seen, observed, pollStart>>

(* ------------------------------ _wait_for_ip --------------------------- *)
Nic(mac, ips) == [hardware_address |-> mac, ip_addresses |-> ips]
Addr(type, value) == [ip_address_type |-> type, ip_address |-> value]

RECURSIVE Ipv4s(_)
\* The IPv4 entries of the interfaces whose hardware address is not all zero,
\* in report order (lines 895-900).
Ipv4s(nics) ==
    IF nics = <<>> THEN <<>>
    ELSE (IF Head(nics).hardware_address # ZeroMac
          THEN SelectSeq(Head(nics).ip_addresses, LAMBDA i : i.ip_address_type = "ipv4")
          ELSE <<>>) \o Ipv4s(Tail(nics))

\* Lines 895-901: every IPv4 entry found is assigned to __opts__["ssh_host"] in
\* turn, and no entry leaves it as it was.
SelectSshHost(nics, prev) ==
    IF Ipv4s(nics) = <<>> THEN prev
    ELSE Ipv4s(nics)[Len(Ipv4s(nics))].ip_address

\* What the guest agent's network-get-interfaces can answer once it is up.
AgentReports ==
    { [kind |-> "result",
       nics |-> << Nic(ZeroMac, << Addr("ipv4", "127.0.0.1") >>),
                   Nic("bc:24:11:00:00:01",
                       << Addr("ipv6", "fe80::1"), Addr("ipv4", "10.0.0.5") >>) >>],
      [kind |-> "result",
       nics |-> << Nic(ZeroMac, << Addr("ipv4", "127.0.0.1") >>),
                   Nic("bc:24:11:00:00:01", << Addr("ipv6", "fe80::1") >>) >>],
      [kind |-> "noresult", nics |-> <<>>] }

\* The in-guest agent of the VM being created starts to answer.
AgentBoot ==
    /\ invoked.op \in {"create", "_wait_for_ip"}
    /\ stack # <<>>
    /\ ~agentUp
    /\ Matches(cluster, invoked.name) # {}
    /\ agentUp' = TRUE
    /\ UNCHANGED <<cluster, pending, now, stack, outcome, result, events, vm_,
                   ssh_host, faults, invoked, seen, observed, pollStart>>

WaitForIp(name, timeout, interval) ==
    [Frame("_wait_for_ip", "lookup", name) EXCEPT !.timeout = timeout,
                                                  !.interval = interval]

wait_for_ip ==
    /\ Running("_wait_for_ip")
    /\ CASE Top.pc = "lookup" ->
            \* line 665
            /\ CallFn("wait", GetVmByName(Top.name, DefaultLookupInterval, DefaultLookupMax))
            /\ UNCHANGED <<now, faults, events>>
         [] Top.pc = "wait" ->
            \* lines 666-668: start_time is taken before the status wait
            /\ stack' = Append([stack EXCEPT ![Len(stack)].pc = "poll",
                                             ![Len(stack)].start_time = now],
                               WaitForVmStatus(Top.name, "running", IpRunningTimeout,
                                               IpRunningInterval))
            /\ UNCHANGED <<outcome, result, now, faults, events>>
         [] Top.pc = "poll" ->
            \* lines 669-688: RAWGET, and when its answer is not 500 the same GET
            \* through the checked path
            IF now < Top.start_time + Top.timeout
            THEN \E q \in QueryResults :
                 /\ faults' = faults + Fail(q)
                 /\ IF q = "conn"
                    THEN /\ now' = now + QueryTime
                         /\ Raise("RequestException")
                         /\ UNCHANGED events
                    ELSE IF q = "http"
                    THEN /\ now' = now + 2 * QueryTime
                         /\ Raise("HTTPError")
                         /\ UNCHANGED events
                    ELSE IF ~agentUp
                    THEN /\ now' = now + QueryTime + Top.interval
                         /\ SetTop(Top)
                         /\ UNCHANGED events
                    ELSE \E report \in AgentReports :
                         /\ now' = now + 2 * QueryTime
                         /\ events' = Append(events, Ev("report", report.kind, 0,
                                                        Len(Ipv4s(report.nics))))
                         /\ Return([NoResult EXCEPT !.res = report])
            ELSE /\ Raise("SaltCloudExecutionTimeout")
                 /\ UNCHANGED <<now, faults, events>>
    /\ UNCHANGED <<cluster, pending, agentUp, vm_, ssh_host, invoked, seen, observed,
                   pollStart>>

(* ----------------------------- show_instance -------------------------- *)
ShowInstanceCall(name, call) ==
    [Frame("show_instance", "entry", name) EXCEPT !.call = call]

\* list_nodes_full (lines 355-365): the inventory and then the configuration
\* of each of its VMs, keyed by name, so that of several VMs of one name the
\* last stays.
ListNodesFull(vms, name) == vms[Max(Matches(vms, name))]

show_instance ==
    /\ Running("show_instance")
    /\ CASE Top.pc = "entry" ->
            \* lines 392-393
            /\ IF Top.call # "action"
               THEN Raise("SaltCloudSystemExit")
               ELSE SetTop([Top EXCEPT !.pc = "list"])
            /\ UNCHANGED <<now, faults>>
         [] Top.pc = "list" ->
            \* lines 395-399
            \E q \in QueryResults, failed \in {"inventory", "config"} :
                /\ faults' = faults + Fail(q)
                /\ q = "ok" => failed = "inventory"
                /\ failed = "config" => cluster # <<>>
                /\ IF q = "http"
                   THEN now' = now + QueryTime /\ Raise("HTTPError")
                   ELSE IF q = "conn" /\ failed = "inventory"
                   THEN now' = now + QueryTime /\ Raise("TypeError")
                   ELSE /\ now' = now + (1 + Len(cluster)) * QueryTime
                        /\ IF Matches(cluster, Top.name) # {}
                           THEN Return([NoResult EXCEPT
                                          !.vm = ListNodesFull(cluster, Top.name)])
                           ELSE Raise("SaltCloudNotFound")
    /\ UNCHANGED <<cluster, pending, agentUp, events, vm_, ssh_host, invoked, seen,
                   observed, pollStart>>

(* --------------------------------- create ------------------------------ *)
CreateCall == Frame("create", "entry", "")

\* Lines 852-857: sorted(tmpvmid) returns a new list that is dropped, so
\* tmpvmid[-1] is the id of the last inventory entry.
FreshNewId(vmlist) == vmlist[Len(vmlist)].vmid + 1

create ==
    /\ Running("create")
    /\ CASE Top.pc = "entry" ->
            \* line 818
            /\ CallFn("plan", GetVmByName(vm_.image, DefaultLookupInterval, DefaultLookupMax))
            /\ UNCHANGED <<cluster, pending, now, events, vm_, ssh_host, faults>>
         [] Top.pc = "plan" ->
            \* lines 819-841
            /\ \E q \in QueryResults :
                /\ faults' = faults + Fail(q)
                /\ now' = now + QueryTime
                /\ IF q = "http"
                   THEN Raise("HTTPError") /\ UNCHANGED <<events, vm_>>
                   ELSE /\ vm_' = [vm_ EXCEPT !.create =
                                     [node |-> "pve", vmid |-> Top.vm.vmid,
                                      newid |-> IF q = "ok" THEN NextId(cluster \o PendingVMs)
                                                ELSE 0,
                                      full |-> TRUE, name |-> vm_.name]]
                        /\ events' = Append(events, Ev("notify", "starting create", 0, 0))
                        /\ SetTop([Top EXCEPT !.pc = IF vm_.clone # NoClone
                                                     THEN "clone" ELSE "fresh"])
            /\ UNCHANGED <<cluster, pending, ssh_host>>
         [] Top.pc = "clone" ->
            \* lines 843-844
            /\ CallFn("start", CloneCall(vm_.clone))
            /\ UNCHANGED <<cluster, pending, now, events, vm_, ssh_host, faults>>
         [] Top.pc = "fresh" ->
            \* lines 846-857
            /\ \E q \in QueryResults :
                /\ faults' = faults + Fail(q)
                /\ now' = now + QueryTime
                /\ IF q = "http" THEN Raise("HTTPError") /\ UNCHANGED vm_
                   ELSE IF q = "conn" THEN Raise("TypeError") /\ UNCHANGED vm_
                   ELSE IF cluster = <<>> THEN Raise("IndexError") /\ UNCHANGED vm_
                   ELSE /\ vm_' = [vm_ EXCEPT !.name = vm_.image,
                                              !.create.name = vm_.name,
                                              !.create.full = FALSE,
                                              !.create.newid = FreshNewId(cluster)]
                        /\ SetTop([Top EXCEPT !.pc = "submit"])
            /\ UNCHANGED <<cluster, pending, events, ssh_host>>
         [] Top.pc = "submit" ->
            \* lines 859-865
            /\ \E q \in QueryResults :
                /\ faults' = faults + Fail(q)
                /\ now' = now + QueryTime
                /\ events' = IF q = "conn" THEN events
                             ELSE Append(events, Ev("POST", "clone", vm_.create.vmid,
                                                    vm_.create.newid))
                /\ pending' = IF q = "ok" /\ ~CloneRefused(vm_.create.newid)
                              THEN Append(pending, Cloned(vm_.create.newid, vm_.create.name))
                              ELSE pending
                /\ IF q = "http" \/ (q = "ok" /\ CloneRefused(vm_.create.newid))
                   THEN Raise("HTTPError")
                   ELSE IF q = "conn" THEN Raise("SystemExit")
                   ELSE SetTop([Top EXCEPT !.pc = "start"])
            /\ UNCHANGED <<cluster, vm_, ssh_host>>
         [] Top.pc = "start" ->
            \* line 867
            /\ CallFn("running", StartCall(vm_.create.name, "action"))
            /\ UNCHANGED <<cluster, pending, now, events, vm_, ssh_host, faults>>
         [] Top.pc = "running" ->
            \* lines 869-881
            /\ CallFn("ip", WaitForVmStatus(vm_.create.name, "running",
                                            CreateRunningTimeout, CreateRunningInterval))
            /\ UNCHANGED <<cluster, pending, now, events, vm_, ssh_host, faults>>
         [] Top.pc = "ip" ->
            \* line 884
            /\ CallFn("select", WaitForIp(vm_.create.name, CreateIpTimeout, CreateIpInterval))
            /\ UNCHANGED <<cluster, pending, now, events, vm_, ssh_host, faults>>
         [] Top.pc = "select" ->
            \* lines 886-901
            /\ IF Top.res.kind # "result"
               THEN Raise("SaltCloudNotFound") /\ UNCHANGED ssh_host
               ELSE /\ ssh_host' = SelectSshHost(Top.res.nics, ssh_host)
                    /\ SetTop([Top EXCEPT !.pc = "probe", !.x = 1])
            /\ UNCHANGED <<cluster, pending, now, events, vm_, faults>>
         [] Top.pc = "probe" ->
            \* lines 904-912: time.Sleep is no attribute of the time module
            /\ IF Top.x > SshProbes
               THEN SetTop([Top EXCEPT !.pc = "bootstrap"]) /\ UNCHANGED events
               ELSE IF ssh_host = ""
               THEN Raise("KeyError") /\ UNCHANGED events
               ELSE \E ssh_answers \in BOOLEAN :
                    /\ events' = Append(events, Ev("probe", ssh_host,
                                                   IF ssh_answers THEN 1 ELSE 0, Top.x))
                    /\ IF ssh_answers
                       THEN SetTop([Top EXCEPT !.pc = "bootstrap"])
                       ELSE Raise("AttributeError")
            /\ UNCHANGED <<cluster, pending, now, vm_, ssh_host, faults>>
         [] Top.pc = "bootstrap" ->
            \* lines 915-918
            /\ vm_' = [vm_ EXCEPT !.name = vm_.create.name]
            /\ events' = Append(events, Ev("bootstrap", ssh_host, 0, 0))
            /\ SetTop([Top EXCEPT !.pc = "show"])
            /\ UNCHANGED <<cluster, pending, now, ssh_host, faults>>
         [] Top.pc = "show" ->
            \* line 920
            /\ CallFn("fire", ShowInstanceCall(vm_.create.name, "action"))
            /\ UNCHANGED <<cluster, pending, now, events, vm_, ssh_host, faults>>
         [] Top.pc = "fire" ->
            \* lines 922-933
            /\ events' = Append(events, Ev("notify", "created instance", 0, 0))
            /\ Return([NoResult EXCEPT !.boot = "bootstrapped", !.vm = Top.vm])
            /\ UNCHANGED <<cluster, pending, now, vm_, ssh_host, faults>>
    /\ UNCHANGED <<agentUp, invoked, seen, observed, pollStart>>

(* ------------------------------ the driver ----------------------------- *)
StaleHost == "192.0.2.9"

\* vm_["clone"]: none, or the kwargs of clone, with or without a newid
\* (newid 0: the key is not there).
CloneOptions ==
    { NoClone,
      [vmid |-> 100, newid |-> 110, name |-> "web-1"],
      [vmid |-> 100, newid |-> 0, name |-> "web-1"] }

\* The surrounding caller makes one call of the driver.
Invoke ==
    /\ invoked = Idle
    /\ \/ \E op \in {"destroy", "start", "stop", "shutdown", "show_instance"},
               call \in Calls :
            /\ invoked' = [Idle EXCEPT !.op = op, !.call = call, !.name = "vm1"]
            /\ stack' = << CASE op = "destroy" -> DestroyCall("vm1", call)
                             [] op = "start" -> StartCall("vm1", call)
                             [] op = "stop" -> StopCall("vm1", call)
                             [] op = "shutdown" -> ShutdownCall("vm1", call)
                             [] op = "show_instance" -> ShowInstanceCall("vm1", call) >>
            /\ UNCHANGED <<vm_, ssh_host>>
       \/ \E status \in Statuses, timeout \in 1..MaxTimeout, interval \in 1..MaxInterval :
            /\ invoked' = [Idle EXCEPT !.op = "_wait_for_vm_status", !.name = "vm1",
                                       !.status = status, !.timeout = timeout,
                                       !.interval = interval]
            /\ stack' = << WaitForVmStatus("vm1", status, timeout, interval) >>
            /\ UNCHANGED <<vm_, ssh_host>>
       \/ \E timeout \in 1..MaxTimeout, interval \in 1..MaxInterval :
            /\ invoked' = [Idle EXCEPT !.op = "_wait_for_ip", !.name = "vm1",
                                       !.timeout = timeout, !.interval = interval]
            /\ stack' = << WaitForIp("vm1", timeout, interval) >>
            /\ UNCHANGED <<vm_, ssh_host>>
       \/ \E opts \in CloneOptions, host \in {"", StaleHost} :
            /\ invoked' = [Idle EXCEPT !.op = "create", !.name = "web-1"]
            /\ vm_' = [NoVmOpts EXCEPT !.name = "web-1", !.image = "tmpl-a",
                                       !.clone = opts]
            /\ ssh_host' = host
            /\ stack' = << CreateCall >>
    /\ seen' = { cluster[i].status : i \in Matches(cluster, invoked'.name) }
    /\ UNCHANGED <<cluster, pending, agentUp, now, outcome, result, events,
                   faults, observed, pollStart>>

Init ==
    /\ cluster \in Inventories
    /\ pending = <<>>
    /\ agentUp = FALSE
    /\ now = 0
    /\ stack = <<>>
    /\ outcome = [exc |-> "none", by |-> ""]
    /\ result = NoResult
    /\ events = <<>>
    /\ vm_ = NoVmOpts
    /\ ssh_host = ""
    /\ faults = 0
    /\ invoked = Idle
    /\ seen = {}
    /\ observed = {}
    /\ pollStart = -1

Next ==
    \/ Invoke
    \/ ClusterStatusChange
    \/ CloneMaterialize
    \/ AgentBoot
    \/ get_vm_by_name
    \/ get_vm_by_id
    \/ set_vm_status
    \/ wait_for_vm_status
    \/ wait_for_ip
    \/ start
    \/ stop
    \/ shutdown
    \/ destroy
    \/ clone
    \/ show_instance
    \/ create

Spec == Init /\ [][Next]_vars

(* ------------------- _stringlist_to_dictionary, _parse_ips ------------- *)
MaxConfigs == 2

\* A comma separated setting string is the sequence of its items, an item the
\* sequence of the fields "=" splits it into; a field is a word or an address
\* in CIDR form.
Word(text) == [text |-> text]
Cidr(octets, prefix) == [octets |-> octets, prefix |-> prefix]
Unbound == [unbound |-> TRUE]
NoValue == [none |-> TRUE]

\* A VM configuration: the dictionary of its settings, here those whose key
\* begins with ipconfig or net, in key order.
VmConfig(settings) == [items |-> settings]

\* dict(item.strip().split("=") for item in input_string.split(",") if item):
\* an item that does not split in two makes dict() raise ValueError; of two
\* items with one key the later stays.
Splits(items) == \A i \in 1..Len(items) : Len(items[i]) = 2
Keys(items) == { items[i][1].text : i \in 1..Len(items) }
StringlistToDictionary(items) ==
    [k \in Keys(items) |->
        items[Max({ i \in 1..Len(items) : items[i][1].text = k })][2]]

\* .get("ip")
GetIp(d) == IF "ip" \in DOMAIN d THEN d["ip"] ELSE NoValue

\* ip_interface(v) raises ValueError for what is no address.
IsInterface(v) == "octets" \in DOMAIN v

\* ip.is_private, for the private, loopback and link-local ranges.
IsPrivate(o) ==
    \/ o[1] = 10
    \/ o[1] = 127
    \/ o[1] = 172 /\ o[2] \in 16..31
    \/ o[1] = 192 /\ o[2] = 168
    \/ o[1] = 169 /\ o[2] = 254

ParseIpsCall(vm_config, vm_type) ==
    [Frame("_parse_ips", "select", "") EXCEPT
        !.status = vm_type,
        !.res = [vm_config |-> vm_config, ip_configs |-> <<>>, private |-> <<>>,
                 public |-> <<>>, ip_with_netmask |-> Unbound]]

parse_ips ==
    /\ Running("_parse_ips")
    /\ CASE Top.pc = "select" ->
            \* lines 777-781; a configuration that is None has no items()
            IF "items" \notin DOMAIN Top.res.vm_config
            THEN Raise("AttributeError")
            ELSE SetTop([Top EXCEPT
                    !.pc = "loop",
                    !.counter = 1,
                    !.res.ip_configs = SelectSeq(Top.res.vm_config.items,
                        LAMBDA c : c.key = (IF Top.status = "lxc" THEN "net"
                                            ELSE "ipconfig"))])
         [] Top.pc = "loop" ->
            \* lines 783-795
            IF Top.counter > Len(Top.res.ip_configs)
            THEN Return([NoResult EXCEPT
                           !.res = [kind |-> "ips", private |-> Top.res.private,
                                    public |-> Top.res.public]])
            ELSE LET items == Top.res.ip_configs[Top.counter].value
                     ip == GetIp(StringlistToDictionary(items))
                 IN  IF ~Splits(items)
                     THEN \* ValueError out of line 785, handled at line 793
                          IF Top.res.ip_with_netmask = Unbound
                          THEN Raise("UnboundLocalError")
                          ELSE SetTop([Top EXCEPT !.counter = @ + 1])
                     ELSE IF ~IsInterface(ip)
                     THEN SetTop([Top EXCEPT !.counter = @ + 1,
                                             !.res.ip_with_netmask = ip])
                     ELSE IF IsPrivate(ip.octets)
                     THEN SetTop([Top EXCEPT !.counter = @ + 1,
                                             !.res.ip_with_netmask = ip,
                                             !.res.private = Append(@, ip.octets)])
                     ELSE SetTop([Top EXCEPT !.counter = @ + 1,
                                             !.res.ip_with_netmask = ip,
                                             !.res.public = Append(@, ip.octets)])
    /\ UNCHANGED <<cluster, pending, agentUp, now, events, vm_, ssh_host, faults,
                   invoked, seen, observed, pollStart>>

(* ------------------------------- list_nodes ---------------------------- *)
\* An inventory entry without a "name" key, and one whose name is null.
Missing == "<missing>"
Null == "<null>"

\* Line 318: not "name" in vm or vm["name"] is not None or vm["name"] == "".
Skipped(vm) == vm.name = Missing \/ vm.name # Null \/ vm.name = ""

\* ret[name] = value: the value of a key that is there is replaced.
Put(ret, e) ==
    IF \E i \in 1..Len(ret) : ret[i].key = e.key
    THEN [i \in 1..Len(ret) |-> IF ret[i].key = e.key THEN e ELSE ret[i]]
    ELSE Append(ret, e)

ListNodesCall == [Frame("list_nodes", "fetch", "") EXCEPT !.x = <<>>]

list_nodes ==
    /\ Running("list_nodes")
    /\ CASE Top.pc = "fetch" ->
            \* lines 314-316
            \E q \in QueryResults :
                /\ faults' = faults + Fail(q)
                /\ now' = now + QueryTime
                /\ IF q = "http" THEN Raise("HTTPError")
                   ELSE IF q = "conn" THEN Raise("TypeError")
                   ELSE SetTop([Top EXCEPT !.pc = "loop", !.counter = 1])
         [] Top.pc = "loop" ->
            \* lines 317-329
            IF Top.counter > Len(cluster)
            THEN Return([NoResult EXCEPT !.res = Top.x]) /\ UNCHANGED <<now, faults>>
            ELSE IF Skipped(cluster[Top.counter])
            THEN /\ SetTop([Top EXCEPT !.counter = @ + 1])
                 /\ UNCHANGED <<now, faults>>
            ELSE \E q \in QueryResults :
                 /\ faults' = faults + Fail(q)
                 /\ now' = now + QueryTime
                 /\ IF q = "http" THEN Raise("HTTPError")
                    ELSE CallFn("store",
                                ParseIpsCall(IF q = "conn" THEN NoValue
                                             ELSE cluster[Top.counter].config,
                                             cluster[Top.counter].type))
         [] Top.pc = "store" ->
            \* lines 320-324 and 331-332
            /\ SetTop([Top EXCEPT
                  !.pc = "loop",
                  !.counter = @ + 1,
                  !.x = Put(@, [key |-> cluster[Top.counter].name,
                                id |-> ToString(cluster[Top.counter].vmid),
                                state |-> cluster[Top.counter].status,
                                private_ips |-> Top.res.private,
                                public_ips |-> Top.res.public])])
            /\ UNCHANGED <<now, faults>>
    /\ UNCHANGED <<cluster, pending, agentUp, events, vm_, ssh_host, invoked, seen,
                   observed, pollStart>>

(* ---------------- list_nodes and _parse_ips over their inputs ----------- *)
Settings ==
    { << <<Word("ip"), Cidr(<<192, 168, 1, 5>>, 24)>> >>,
      << <<Word("ip"), Cidr(<<8, 8, 8, 8>>, 32)>>, <<Word("gw"), Word("8.8.8.1")>> >>,
      << <<Word("not-an-ip")>> >>,
      << <<Word("ip"), Word("not-an-ip")>> >>,
      << <<Word("gw"), Word("10.0.0.1")>> >> }

Configs ==
    { VmConfig(c) :
        c \in SeqsUpTo({ [key |-> k, value |-> v] :
                           k \in {"ipconfig", "net"}, v \in Settings }, MaxConfigs) }

ListingCatalogue ==
    << [name |-> "vm1", vmid |-> 104, status |-> "running", type |-> "qemu",
        config |-> VmConfig(<< [key |-> "ipconfig",
                                value |-> << <<Word("ip"),
                                               Cidr(<<192, 168, 1, 5>>, 24)>> >>] >>)],
       [name |-> Null, vmid |-> 106, status |-> "stopped", type |-> "lxc",
        config |-> VmConfig(<< [key |-> "net",
                                value |-> << <<Word("ip"),
                                               Cidr(<<10, 0, 0, 7>>, 8)>> >>] >>)],
       [name |-> "", vmid |-> 107, status |-> "stopped", type |-> "qemu",
        config |-> VmConfig(<<>>)],
       [name |-> Missing, vmid |-> 108, status |-> "running", type |-> "qemu",
        config |-> VmConfig(<<>>)] >>

ListingInventories ==
    { [i \in 1..Len(p) |-> ListingCatalogue[p[i]]] :
        p \in InjSeqs(1..Len(ListingCatalogue), MaxVMs) }

InitListing ==
    /\ pending = <<>>
    /\ agentUp = FALSE
    /\ now = 0
    /\ outcome = [exc |-> "none", by |-> ""]
    /\ result = NoResult
    /\ events = <<>>
    /\ vm_ = NoVmOpts
    /\ ssh_host = ""
    /\ faults = 0
    /\ seen = {}
    /\ observed = {}
    /\ pollStart = -1
    /\ \/ /\ cluster \in ListingInventories
          /\ stack = << ListNodesCall >>
          /\ invoked = [Idle EXCEPT !.op = "list_nodes"]
       \/ /\ cluster = <<>>
          /\ \E vm_config \in Configs, vm_type \in {"qemu", "lxc"} :
              /\ stack = << ParseIpsCall(vm_config, vm_type) >>
              /\ invoked = [Idle EXCEPT !.op = "_parse_ips", !.status = vm_type]
                           @@ ("config" :> vm_config)

NextListing ==
    \/ list_nodes
    \/ parse_ips

SpecListing == InitListing /\ [][NextListing]_vars

(* ------------------- two create calls on the fresh path ---------------- *)
Callers == 1..2

\* Two salt-cloud processes, each in create at line 846 with the image
\* resolved; stack[p] is the frame of caller p. before: the clone requests the
\* cluster had received when the caller fetched the inventory (-1: not fetched).
FreshCall(p) ==
    [Frame("create", "fresh", IF p = 1 THEN "web-1" ELSE "web-2") EXCEPT
        !.vm = Catalogue[1]] @@ ("before" :> -1)

\* Target id with an offset per caller, so that no two callers share one.
TargetIdPerCaller(p, vmlist) == FreshNewId(vmlist) + p - 1

\* Lines 852-857: nothing of the caller enters the id.
TargetId(p, vmlist) == FreshNewId(vmlist)

create_fresh(p) ==
    /\ stack[p].pc \in {"fresh", "submit"}
    /\ \E q \in QueryResults :
        /\ faults' = faults + Fail(q)
        /\ now' = now + QueryTime
        /\ IF stack[p].pc = "fresh"
           THEN \* lines 852-857
                /\ stack' = [stack EXCEPT
                      ![p].pc = IF q = "ok" /\ cluster # <<>> THEN "submit" ELSE "raised",
                      ![p].status = CASE q = "http" -> "HTTPError"
                                      [] q = "conn" -> "TypeError"
                                      [] cluster = <<>> -> "IndexError"
                                      [] OTHER -> "",
                      ![p].x = IF q = "ok" /\ cluster # <<>>
                               THEN TargetId(p, cluster) ELSE 0,
                      ![p].before = Cardinality({ i \in 1..Len(events) :
                                                    events[i].kind = "POST" })]
                /\ UNCHANGED <<events, pending>>
           ELSE \* lines 859-865
                /\ events' = IF q = "conn" THEN events
                             ELSE Append(events, Ev("POST", "clone", stack[p].vm.vmid,
                                                    stack[p].x))
                /\ pending' = IF q = "ok" /\ ~CloneRefused(stack[p].x)
                              THEN Append(pending, Cloned(stack[p].x, stack[p].name))
                              ELSE pending
                /\ stack' = [stack EXCEPT
                      ![p].pc = IF q = "ok" /\ ~CloneRefused(stack[p].x)
                                THEN "start" ELSE "raised",
                      ![p].status = CASE q = "conn" -> "SystemExit"
                                      [] q = "http" \/ CloneRefused(stack[p].x) -> "HTTPError"
                                      [] OTHER -> ""]
    /\ UNCHANGED <<cluster, agentUp, outcome, result, vm_, ssh_host, invoked, seen,
                   observed, pollStart>>

InitTwoCreates ==
    /\ cluster \in { inv \in Inventories : Matches(inv, Catalogue[1].name) # {} }
    /\ pending = <<>>
    /\ agentUp = FALSE
    /\ now = 0
    /\ stack = [p \in Callers |-> FreshCall(p)]
    /\ outcome = [exc |-> "none", by |-> ""]
    /\ result = NoResult
    /\ events = <<>>
    /\ vm_ = NoVmOpts
    /\ ssh_host = ""
    /\ faults = 0
    /\ invoked = [Idle EXCEPT !.op = "create"]
    /\ seen = {}
    /\ observed = {}
    /\ pollStart = -1

NextTwoCreates ==
    \/ \E p \in Callers : create_fresh(p)
    \/ CloneMaterialize

SpecTwoCreates == InitTwoCreates /\ [][NextTwoCreates]_vars

(* ------------------ create, from the interface report on --------------- *)
MaxNics == 2
MaxIps == 2

\* What network-get-interfaces can hold: up to MaxNics interfaces, each with
\* up to MaxIps addresses, or an answer with no "result" in it.
Macs == {ZeroMac, "bc:24:11:00:00:01"}
Addrs == {Addr("ipv4", "10.0.0.5"), Addr("ipv4", "10.0.0.6"), Addr("ipv6", "fe80::1")}
Reports ==
    { [kind |-> "result", nics |-> n] :
        n \in SeqsUpTo({ Nic(m, i) : m \in Macs, i \in SeqsUpTo(Addrs, MaxIps) }, MaxNics) }
    \cup { [kind |-> "noresult", nics |-> <<>>] }

NewVM == [name |-> "web-1", vmid |-> 101, status |-> "running"]

\* create at line 886: the clone of tmpl-a was requested and started, the VM
\* is running and _wait_for_ip has returned res.
InitAtReport ==
    /\ cluster = << Catalogue[1], NewVM >>
    /\ pending = <<>>
    /\ agentUp = TRUE
    /\ now = 0
    /\ \E res \in Reports :
        /\ stack = << [CreateCall EXCEPT !.pc = "select", !.vm = Catalogue[1],
                                         !.res = res] >>
        /\ events = << Ev("notify", "starting create", 0, 0),
                       Ev("POST", "clone", Catalogue[1].vmid, NewVM.vmid),
                       Ev("POST", "start", NewVM.vmid, 0),
                       Ev("report", res.kind, 0, Len(Ipv4s(res.nics))) >>
    /\ outcome = [exc |-> "none", by |-> ""]
    /\ result = NoResult
    /\ vm_ = [name |-> Catalogue[1].name, image |-> Catalogue[1].name, clone |-> NoClone,
              create |-> [node |-> "pve", vmid |-> Catalogue[1].vmid,
                          newid |-> NewVM.vmid, full |-> FALSE, name |-> NewVM.name]]
    /\ ssh_host \in {"", StaleHost}
    /\ faults = 0
    /\ invoked = [Idle EXCEPT !.op = "create", !.name = NewVM.name]
    /\ seen = {"running"}
    /\ observed = {"running"}
    /\ pollStart = 0

NextAtReport ==
    \/ create
    \/ show_instance

SpecAtReport == InitAtReport /\ [][NextAtReport]_vars

(* ------------------------------ properties ----------------------------- *)
Done == outcome.exc # "none"
Evs(kind, what) == { i \in 1..Len(events) : events[i].kind = kind /\ events[i].what = what }
Kind(kind) == { i \in 1..Len(events) : events[i].kind = kind }

\* C1: a _wait_for_vm_status call with a positive timeout, on a VM that has the
\* target status from the first status fetch on, returns success on that first
\* check: one fetch after polling began, with no sleep.
C1_ReturnsOnFirstCheck ==
    (/\ invoked.op = "_wait_for_vm_status"
     /\ invoked.timeout > 0
     /\ Done
     /\ faults = 0
     /\ pollStart >= 0
     /\ seen = {invoked.status})
    => (/\ outcome.exc = "ok"
        /\ result.success
        /\ now - pollStart = QueryTime)

\* C2: a _wait_for_vm_status call during which the VM never has the target
\* status fails with SaltCloudExecutionTimeout, and the time from the first
\* status fetch to the failure is at least timeout and at most timeout plus
\* interval (plus the one request that was in flight at the deadline).
C2_TimeoutWithinInterval ==
    (/\ invoked.op = "_wait_for_vm_status"
     /\ Done
     /\ faults = 0
     /\ pollStart >= 0
     /\ invoked.status \notin seen)
    => (/\ outcome.exc = "SaltCloudExecutionTimeout"
        /\ now - pollStart >= invoked.timeout
        /\ now - pollStart <= invoked.timeout + invoked.interval + QueryTime)

\* C3: destroy sends the DELETE only after its wait read "stopped" off the VM;
\* and a destroy (not called as a function) of a VM that is there and never
\* stops fails with SaltCloudExecutionTimeout without a DELETE.
C3_DeleteOnlyAfterStopped ==
    invoked.op = "destroy" =>
        /\ (Kind("DELETE") # {} => "stopped" \in observed)
        /\ (/\ Done
            /\ invoked.call # "function"
            /\ faults = 0
            /\ seen # {}
            /\ "stopped" \notin seen)
           => (/\ outcome.exc = "SaltCloudExecutionTimeout"
               /\ Kind("DELETE") = {})

\* C4: destroy called as an action on a VM that is stopped throughout its wait
\* sends exactly one DELETE, emits "destroyed" after it, and returns.
C4_DestroyDeletesStoppedVM ==
    (/\ invoked.op = "destroy"
     /\ invoked.call = "action"
     /\ Done
     /\ faults = 0
     /\ pollStart >= 0
     /\ seen = {"stopped"})
    => (/\ outcome.exc = "ok"
        /\ Cardinality(Kind("DELETE")) = 1
        /\ \E d \in Kind("DELETE") : \E n \in Evs("notify", "destroyed") : d < n)

\* C5: in destroy, "destroying" is emitted before the stop request with no
\* request to the cluster in between, and "destroyed" only right after a
\* DELETE that completed.
C5_NotificationsAroundRequests ==
    invoked.op = "destroy" =>
        /\ \A i \in Evs("POST", "stop") :
               i > 1 /\ events[i - 1] = Ev("notify", "destroying", 0, 0)
        /\ \A i \in Evs("notify", "destroyed") :
               i > 1 /\ events[i - 1].kind = "DELETE"

Expected(op) == IF op = "start" THEN "running" ELSE "stopped"

\* C6: start, stop and shutdown return success only after a status fetch made
\* after the action request read the expected status; called as an action on a
\* VM that is there, with that status never read, they fail with
\* SaltCloudExecutionTimeout.
C6_SuccessOnlyAfterObserved ==
    invoked.op \in {"start", "stop", "shutdown"} =>
        /\ outcome.exc = "ok" => (result.success /\ Expected(invoked.op) \in observed)
        /\ (/\ Done
            /\ invoked.call = "action"
            /\ faults = 0
            /\ seen # {}
            /\ Expected(invoked.op) \notin observed)
           => outcome.exc = "SaltCloudExecutionTimeout"

\* The clone request of this call reached the cluster and the cluster took it.
CloneAccepted ==
    /\ Evs("POST", "clone") # {}
    /\ \E i \in Evs("POST", "clone") :
           ById(cluster \o PendingVMs, events[i].arg) # {}

\* The call ended on something the scenario of C7 rules out: a VM that is not
\* in the inventory, a status that did not settle on "running", an agent that
\* did not answer or answered without exactly one IPv4 address, a failed probe.
Unfavourable ==
    \/ outcome.by \in {"_get_vm_by_name", "_get_vm_by_id", "_wait_for_ip"}
    \/ outcome.by = "_wait_for_vm_status" /\ seen # {"running"}
    \/ \E i \in Kind("report") : events[i].what # "result" \/ events[i].arg # 1
    \/ \E i \in Kind("probe") : events[i].vmid = 0

\* C7: a create call on the clone path whose template exists, whose clone is
\* accepted, whose VM settles on "running", whose agent reports one IPv4
\* address (10.0.0.5) and whose first SSH probe succeeds invokes bootstrap with
\* that address and returns the bootstrap result with the details of the new VM.
C7_ClonePathBootstraps ==
    (/\ invoked.op = "create"
     /\ vm_.clone # NoClone
     /\ Done
     /\ faults = 0
     /\ CloneAccepted
     /\ ~Unfavourable)
    => (/\ outcome.exc = "ok"
        /\ Evs("bootstrap", "10.0.0.5") # {}
        /\ result.boot = "bootstrapped"
        /\ result.vm.name = vm_.clone.name)

Before(i, S) == \E j \in S : j < i
Submitted(i) == Before(i, Evs("POST", "clone"))
Discovered(i) == Before(i, { j \in Kind("report") : events[j].arg > 0 })
Reachable(i) == Before(i, { j \in Kind("probe") : events[j].vmid = 1 })

FetchedIds ==
    { cluster[i].vmid : i \in { j \in 1..Len(cluster) : cluster[j].name # "web-1" } }

\* C9: on the fresh path (no clone parameters) the id create hands to the
\* clone request is the maximum of the inventory's VM ids plus one.
C9_FreshIdIsMaxPlusOne ==
    (invoked.op = "create" /\ vm_.clone = NoClone) =>
        \A i \in Evs("POST", "clone") : events[i].arg = Max(FetchedIds) + 1

\* C10: the id create hands to the clone request is the id of no VM of the
\* inventory it fetched.
C10_TargetIdUnused ==
    invoked.op = "create" =>
        \A i \in Evs("POST", "clone") : events[i].arg \notin FetchedIds

\* The report create is working on, while create runs.
Report == stack[1].res

\* C11: the address create probes and bootstraps is the first IPv4 address, in
\* report order, of the interfaces whose hardware address is not all zero.
C11_FirstIpv4Selected ==
    (/\ invoked.op = "create"
     /\ stack # <<>>
     /\ Report.kind = "result"
     /\ Ipv4s(Report.nics) # <<>>)
    => \A i \in Kind("probe") \cup Kind("bootstrap") :
           events[i].what = Ipv4s(Report.nics)[1].ip_address

\* C12: after a report with a result but no IPv4 address on an interface with a
\* non-zero hardware address, create makes no SSH probe and no bootstrap, and
\* it ends in SaltCloudNotFound.
C12_NoAddressIsNotFound ==
    (/\ invoked.op = "create"
     /\ \E i \in Kind("report") : events[i].what = "result" /\ events[i].arg = 0)
    => (/\ Kind("probe") = {}
        /\ Kind("bootstrap") = {}
        /\ Done => outcome.exc = "SaltCloudNotFound")

\* C13: create probes the SSH port at most SshProbes times and not again after
\* a probe that succeeded; when no probe succeeded create ends in
\* SaltCloudExecutionTimeout with no bootstrap.
C13_BoundedProbes ==
    invoked.op = "create" =>
        /\ Cardinality(Kind("probe")) <= SshProbes
        /\ \A i, j \in Kind("probe") : events[i].vmid = 1 => j <= i
        /\ (/\ Done
            /\ Kind("probe") # {}
            /\ \A i \in Kind("probe") : events[i].vmid = 0)
           => (/\ outcome.exc = "SaltCloudExecutionTimeout"
               /\ Kind("bootstrap") = {})

\* C14: a _wait_for_ip call on a VM that is running throughout has two ways
\* to end: it returns the interface report of the first poll that is not "not
\* ready", or, every poll until its timeout having been "not ready", its own
\* poll loop raises SaltCloudExecutionTimeout.
C14_NotReadyIsRetried ==
    (/\ invoked.op = "_wait_for_ip"
     /\ Done
     /\ faults = 0
     /\ pollStart >= 0
     /\ seen = {"running"})
    => \/ outcome.exc = "ok" /\ result.res \in AgentReports
       \/ outcome = [exc |-> "SaltCloudExecutionTimeout", by |-> "_wait_for_ip"]

\* The retry budget the caller of the name lookup in flight passed: max=12
\* from _wait_for_vm_status, the default of 2 from every other caller.
Budget ==
    IF Len(stack) > 1 /\ stack[Len(stack) - 1].fn = "_wait_for_vm_status"
    THEN WaitLookupMax
    ELSE DefaultLookupMax

\* C15: a name lookup makes no more unsuccessful inventory fetches than the
\* retry budget its caller passed, sleeping interval after each; stop on a VM
\* that is not in the inventory therefore ends in SaltCloudNotFound after the
\* default budget of fetches and sleeps, no sooner and no later.
C15_LookupKeepsBudget ==
    /\ Running("_get_vm_by_name") => Top.counter <= Budget
    /\ (/\ invoked.op = "stop"
        /\ faults = 0
        /\ outcome = [exc |-> "SaltCloudNotFound", by |-> "_get_vm_by_name"])
       => now = DefaultLookupMax * (QueryTime + DefaultLookupInterval)

\* C16: a poll loop ends in success or in SaltCloudNotFound or
\* SaltCloudExecutionTimeout: a create call that the SSH probe loop ended,
\* with no bootstrap after it, ended in one of the two failures.
C16_PollLoopOutcomes ==
    (/\ invoked.op = "create"
     /\ Done
     /\ Kind("probe") # {}
     /\ Kind("bootstrap") = {})
    => outcome.exc \in {"SaltCloudNotFound", "SaltCloudExecutionTimeout"}

\* C17: an operation during which a request failed in transport ends normally
\* or in SaltCloudNotFound or SaltCloudExecutionTimeout, in no other error and
\* in no process exit.
C17_TransportFailureKinds ==
    (Done /\ faults > 0)
    => outcome.exc \in {"ok", "SaltCloudNotFound", "SaltCloudExecutionTimeout"}

\* C18: a create call sends no DELETE and no stop or shutdown request, and a
\* VM the cluster took its clone request for (the request reached it with a
\* valid id that no VM had) stays in the cluster, accepted or in the inventory,
\* also after the call has failed.
C18_NoRollback ==
    invoked.op = "create" =>
        /\ Kind("DELETE") = {}
        /\ Evs("POST", "stop") \cup Evs("POST", "shutdown") = {}
        /\ \A i \in Evs("POST", "clone") :
               (/\ faults = 0
                /\ events[i].arg >= FirstVmid
                /\ events[i].arg \notin FetchedIds)
               => ById(cluster \o PendingVMs, events[i].arg) # {}

\* C18 witness: a create call that failed after its clone was taken and the new
\* VM had appeared in the inventory.
C18_Witness ==
    /\ invoked.op = "create"
    /\ Done
    /\ outcome.exc # "ok"
    /\ Evs("POST", "clone") # {}
    /\ Matches(cluster, "web-1") # {}

WrongConvention ==
    \/ invoked.op \in {"start", "stop", "shutdown", "show_instance"}
       /\ invoked.call # "action"
    \/ invoked.op = "destroy" /\ invoked.call = "function"

\* C19: start, stop, shutdown and show_instance called other than as an action,
\* and destroy called as a function, end in SaltCloudSystemExit raised by the
\* operation itself, with no request sent, no time spent on one, and no
\* notification emitted.
C19_InvalidInvocation ==
    WrongConvention =>
        /\ events = <<>>
        /\ now = 0
        /\ faults = 0
        /\ Len(stack) <= 1
        /\ Done => outcome = [exc |-> "SaltCloudSystemExit", by |-> invoked.op]

\* C19 witness: such a call, rejected.
C19_Witness ==
    /\ WrongConvention
    /\ outcome.exc = "SaltCloudSystemExit"
    /\ stack = <<>>

\* C20: on the clone path create sends one clone request, against the template
\* it resolved by name, and the request carries the target id: the newid among
\* the caller's clone options or, the caller naming none, the id create
\* allocated from the cluster's next-id hint.
C20_CloneRequestParameters ==
    (invoked.op = "create" /\ vm_.clone # NoClone /\ faults = 0) =>
        /\ Cardinality(Evs("POST", "clone")) <= 1
        /\ (Done /\ outcome.by \notin {"_get_vm_by_name", "_get_vm_by_id"})
           => Evs("POST", "clone") # {}
        /\ \A i \in Evs("POST", "clone") :
               /\ events[i].vmid = vm_.create.vmid
               /\ events[i].arg = IF vm_.clone.newid # 0 THEN vm_.clone.newid
                                  ELSE vm_.create.newid

\* The interface settings _parse_ips was given that are well formed: items of
\* the form key=value, among them an ip whose value is an address in CIDR form.
WellFormed(c) ==
    Splits(c.value) /\ IsInterface(GetIp(StringlistToDictionary(c.value)))
Given ==
    SelectSeq(invoked.config.items,
              LAMBDA c : c.key = (IF invoked.status = "lxc" THEN "net" ELSE "ipconfig"))
Hosts(cs) == [i \in 1..Len(cs) |-> GetIp(StringlistToDictionary(cs[i].value)).octets]
HostOf(c) == GetIp(StringlistToDictionary(c.value)).octets

\* C21: _parse_ips raises nothing, whatever the configuration and wherever its
\* malformed entries are: it returns the host address of every well-formed
\* entry, in the private list when the address is in a private range and in
\* the public list otherwise, and nothing else.
C21_ParseIpsNeverRaises ==
    (invoked.op = "_parse_ips" /\ Done) =>
        /\ outcome.exc = "ok"
        /\ result.res.private =
             Hosts(SelectSeq(Given, LAMBDA c : WellFormed(c) /\ IsPrivate(HostOf(c))))
        /\ result.res.public =
             Hosts(SelectSeq(Given, LAMBDA c : WellFormed(c) /\ ~IsPrivate(HostOf(c))))

Usable(vm) == vm.name \notin {Missing, Null, ""}

\* C22: list_nodes returns, for every VM of the inventory with a non-empty
\* name, an entry under that name with the VM's id and state, and no entry
\* for a VM without a usable name.
C22_ListNodesListsNamedVMs ==
    (invoked.op = "list_nodes" /\ outcome.exc = "ok") =>
        /\ \A i \in 1..Len(cluster) :
               Usable(cluster[i]) =>
                   \E j \in 1..Len(result.res) :
                       /\ result.res[j].key = cluster[i].name
                       /\ result.res[j].id = ToString(cluster[i].vmid)
                       /\ result.res[j].state = cluster[i].status
        /\ \A j \in 1..Len(result.res) :
               \E i \in 1..Len(cluster) :
                   Usable(cluster[i]) /\ result.res[j].key = cluster[i].name

\* C23: between its creation request and the first poll of the guest agent a
\* create call runs one status wait, for "running" with timeout 60 and
\* interval 2, and no status wait with other parameters; a VM that does not get
\* to "running" ends the call in SaltCloudExecutionTimeout within timeout plus
\* interval (and a request in flight) of the start of that wait.
C23_SingleRunningWait ==
    invoked.op = "create" =>
        /\ Running("_wait_for_vm_status")
           => (/\ Top.status = "running"
               /\ Top.timeout = CreateRunningTimeout
               /\ Top.interval = CreateRunningInterval)
        /\ (/\ outcome = [exc |-> "SaltCloudExecutionTimeout",
                          by |-> "_wait_for_vm_status"]
            /\ faults = 0
            /\ "running" \notin seen)
           => now - pollStart <= CreateRunningTimeout + CreateRunningInterval + QueryTime

\* C24: the time a status wait takes is not charged to the timeout of IP
\* discovery: while _wait_for_ip is waiting on something it called, its poll
\* loop's start_time is not taken yet (0) or no time has passed since.
C24_DiscoveryClockNotCharged ==
    \A i \in 1..(Len(stack) - 1) :
        stack[i].fn = "_wait_for_ip"
        => (stack[i].start_time = 0 \/ now <= stack[i].start_time)

\* C25: destroy called under a convention other than "function" on a VM that
\* is in the inventory does not end in SaltCloudSystemExit, and its stop
\* request reaches the cluster.
C25_DestroyAcceptsConventions ==
    (/\ invoked.op = "destroy"
     /\ invoked.call # "function"
     /\ Done
     /\ faults = 0
     /\ seen # {})
    => (/\ outcome.exc # "SaltCloudSystemExit"
        /\ Evs("POST", "stop") # {})

Fetched(p) == stack[p].pc \in {"submit", "start"} \/ (stack[p].pc = "raised" /\ stack[p].x # 0)

\* C26: id allocation is under no lock: two fresh-path create calls that both
\* fetched the inventory before either sent its clone request hold the same
\* target id, and every request one of them sends carries that id.
C26_ConcurrentCreatesShareId ==
    (\A p \in Callers : Fetched(p) /\ stack[p].before = 0) =>
        /\ stack[1].x = stack[2].x
        /\ \A i \in Evs("POST", "clone") : events[i].arg = stack[1].x

\* C26 witness: both calls fetched first, and two clone requests with one
\* target id have reached the cluster.
C26_Witness ==
    /\ \A p \in Callers : stack[p].before = 0 /\ Fetched(p)
    /\ Cardinality(Evs("POST", "clone")) = 2
    /\ events[1].arg = events[2].arg
====
